---- MODULE Spec2Model ----
(***************************************************************************)
(* RestrictingVfs (src/src/lib.rs): a storage back-end that checks the     *)
(* acting user's VfsOperations bit before it delegates to the wrapped      *)
(* storage back-end.  The delegate is a test double with a two-path file   *)
(* system that records every invocation and what it returned.              *)
(***************************************************************************)
EXTENDS Integers, Sequences, FiniteSets, TLC

\* ------------------------------------------------------------ bounds
\* Largest start_pos a caller passes to get, get_into and put.
MaxPos == 1

\* ------------------------------------------------- VfsOperations (bitflags)
MK_DIR == 1
RM_DIR == 2
GET == 4
PUT == 8
DEL == 16
RENAME == 32
MD5 == 64
LIST == 128

RECURSIVE BitAnd(_, _)
BitAnd(a, b) ==
    IF a = 0 \/ b = 0 THEN 0
    ELSE (a % 2) * (b % 2) + 2 * BitAnd(a \div 2, b \div 2)

RECURSIVE BitOr(_, _)
BitOr(a, b) ==
    IF a = 0 THEN b
    ELSE IF b = 0 THEN a
    ELSE (IF a % 2 = 1 \/ b % 2 = 1 THEN 1 ELSE 0) + 2 * BitOr(a \div 2, b \div 2)

\* The flags are bits of a u32; a bitwise or of them never carries.
Union(a, b) == BitOr(a, b)

Difference(a, b) == a - BitAnd(a, b)

Empty == 0

\* intersects in place of contains: any bit of flag is in set.
ContainsAny(set, flag) == flag = 0 \/ BitAnd(set, flag) # 0

\* bitflags' contains: every bit of flag is in set.
Contains(set, flag) == BitAnd(set, flag) = flag

WRITE_OPS == Union(Union(Union(Union(MK_DIR, RM_DIR), PUT), DEL), RENAME)

\* VfsOperations::all()
All == Union(Union(Union(Union(WRITE_OPS, GET), MD5), LIST), WRITE_OPS)

Flags == {MK_DIR, RM_DIR, GET, PUT, DEL, RENAME, MD5, LIST}

\* Every value of the eight flags.
AllSets == 0..All

\* ------------------------------------------------------ the storage contract
SyncOps == {"name", "supported_features"}

Unguarded == SyncOps \cup {"metadata", "cwd"}

Guarded == {"md5", "list", "list_fmt", "nlst", "get_into", "get", "put",
            "del", "mkd", "rename", "rmd"}

Operations == Unguarded \cup Guarded

Paths == {"/a", "/b"}

Positions == 0..MaxPos

NoArgs == [path |-> "-", to |-> "-", start_pos |-> 0, stream |-> "-"]

\* The arguments a caller passes to each method, besides the user.
ArgsOf(op) ==
    CASE op \in SyncOps ->
           {NoArgs}
      [] op = "get" ->
           {[NoArgs EXCEPT !.path = q, !.start_pos = n] : q \in Paths, n \in Positions}
      [] op = "get_into" ->
           {[NoArgs EXCEPT !.path = q, !.start_pos = n, !.stream = "output"] :
               q \in Paths, n \in Positions}
      [] op = "put" ->
           {[NoArgs EXCEPT !.path = q, !.start_pos = n, !.stream = "input"] :
               q \in Paths, n \in Positions}
      [] op = "rename" ->
           {[NoArgs EXCEPT !.path = q, !.to = t] : q \in Paths, t \in Paths}
      [] OTHER ->
           {[NoArgs EXCEPT !.path = q] : q \in Paths}

\* nlst returns std::io::Error, every other method libunftp's storage::Error.
ErrorTypeOf(op) == IF op = "nlst" THEN "std::io::Error" ELSE "libunftp::storage::Error"

Ok(v) == [ok |-> TRUE, ty |-> "-", kind |-> "-", val |-> v]

Err(ty, kind) == [ok |-> FALSE, ty |-> ty, kind |-> kind, val |-> <<>>]

Pending == [ok |-> FALSE, ty |-> "-", kind |-> "pending", val |-> <<>>]

\* ------------------------------------------------------------ the delegate
Sessions == {"s1", "s2"}

Users == {"u1", "u2"}

UserOf(p) == IF p = "s1" THEN "u1" ELSE "u2"

EmptyFs == [q \in Paths |-> "absent"]

\* The errors the delegate raises of its own accord, whatever its state.
DelegateFaults == {"none", "PermissionDenied"}

DelegateName == Ok(<<"name", "double">>)

DelegateFeatures == Ok(<<"features", 1>>)

\* One asynchronous method of the delegate: the state it leaves and what it returns.
Delegate(state, op, user, a, fault) ==
    LET ty == ErrorTypeOf(op)
        same == [fs |-> state, ret |-> Pending]
        missing == [same EXCEPT !.ret = Err(ty, "PermanentFileNotAvailable")]
        kind == state[a.path]
    IN  IF fault # "none" THEN [same EXCEPT !.ret = Err(ty, fault)]
        ELSE CASE op = "metadata" ->
                    IF kind = "absent" THEN missing
                    ELSE [same EXCEPT !.ret = Ok(<<"meta", a.path, kind>>)]
               [] op = "cwd" ->
                    IF kind = "dir" THEN [same EXCEPT !.ret = Ok(<<"unit">>)] ELSE missing
               [] op = "md5" ->
                    IF kind = "file" THEN [same EXCEPT !.ret = Ok(<<"md5", a.path>>)]
                    ELSE missing
               [] op \in {"list", "list_fmt", "nlst"} ->
                    [same EXCEPT !.ret =
                        Ok(<<op, a.path, {q \in Paths : state[q] # "absent"}>>)]
               [] op = "get" ->
                    IF kind = "file"
                    THEN [same EXCEPT !.ret = Ok(<<"stream", a.path, a.start_pos>>)]
                    ELSE missing
               [] op = "get_into" ->
                    IF kind = "file"
                    THEN [same EXCEPT !.ret = Ok(<<"copied", a.path, a.start_pos, a.stream>>)]
                    ELSE missing
               [] op = "put" ->
                    IF kind = "dir" THEN missing
                    ELSE [fs |-> [state EXCEPT ![a.path] = "file"],
                          ret |-> Ok(<<"stored", a.stream, a.start_pos>>)]
               [] op = "del" ->
                    IF kind = "file"
                    THEN [fs |-> [state EXCEPT ![a.path] = "absent"], ret |-> Ok(<<"unit">>)]
                    ELSE missing
               [] op = "mkd" ->
                    IF kind = "absent"
                    THEN [fs |-> [state EXCEPT ![a.path] = "dir"], ret |-> Ok(<<"unit">>)]
                    ELSE missing
               [] op = "rmd" ->
                    IF kind = "dir"
                    THEN [fs |-> [state EXCEPT ![a.path] = "absent"], ret |-> Ok(<<"unit">>)]
                    ELSE missing
               [] op = "rename" ->
                    IF kind # "absent" /\ state[a.to] = "absent"
                    THEN [fs |-> [state EXCEPT ![a.path] = "absent", ![a.to] = kind],
                          ret |-> Ok(<<"unit">>)]
                    ELSE missing
               [] OTHER -> missing

\* The delegate's two synchronous methods.
DelegateSync(op) == IF op = "name" THEN DelegateName ELSE DelegateFeatures

\* ------------------------------------------------------------- the overlay
\* rename tested against the delete bit as well as its own.
RequiredBitRenameAlsoDel(op) ==
    CASE op = "md5" -> MD5
      [] op \in {"list", "list_fmt", "nlst"} -> LIST
      [] op \in {"get_into", "get"} -> GET
      [] op = "put" -> PUT
      [] op = "del" -> DEL
      [] op = "mkd" -> MK_DIR
      [] op = "rename" -> Union(RENAME, DEL)
      [] op = "rmd" -> RM_DIR
      [] OTHER -> Empty

\* The bit each guarded method tests before it delegates.
RequiredBit(op) ==
    CASE op = "md5" -> MD5
      [] op \in {"list", "list_fmt", "nlst"} -> LIST
      [] op \in {"get_into", "get"} -> GET
      [] op = "put" -> PUT
      [] op = "del" -> DEL
      [] op = "mkd" -> MK_DIR
      [] op = "rename" -> RENAME
      [] op = "rmd" -> RM_DIR
      [] OTHER -> Empty

\* nlst left without its test.
PermittedSkipsNlst(ps, op) ==
    op \in Unguarded \cup {"nlst"} \/ Contains(ps, RequiredBit(op))

\* cwd tested against the list bit.
PermittedCwdTested(ps, op) ==
    IF op = "cwd" THEN Contains(ps, LIST)
    ELSE op \in Unguarded \/ Contains(ps, RequiredBit(op))

\* if user.permissions().contains(..): metadata, cwd, name and
\* supported_features have no such test.
Permitted(ps, op) == op \in Unguarded \/ Contains(ps, RequiredBit(op))

\* rename handed to the delegate with from and to exchanged.
ForwardSwapsRename(op, user, a) ==
    IF op = "rename"
    THEN <<[method |-> op, user |-> user,
            args |-> [a EXCEPT !.path = a.to, !.to = a.path], ret |-> Pending]>>
    ELSE <<[method |-> op, user |-> user, args |-> a, ret |-> Pending]>>

\* self.delegate.<op>(user, ..): the one delegate call of a method.
Forward(op, user, a) == <<[method |-> op, user |-> user, args |-> a, ret |-> Pending]>>

\* The delegate called before the outcome of the test is looked at.
InvokesBeforeTest(ok, op, user, a) ==
    <<[method |-> op, user |-> user, args |-> a, ret |-> Pending]>>

\* The delegate calls a method makes, given the outcome of its test.
Invocations(ok, op, user, a) == IF ok THEN Forward(op, user, a) ELSE <<>>

\* A denial that says which operation was refused.
DeniedNamesOperation(op) ==
    [ok |-> FALSE, ty |-> ErrorTypeOf(op), kind |-> "PermissionDenied", val |-> <<op>>]

\* Err(..PermissionDenied.into()): the else branch of a guarded method.
Denied(op) ==
    IF op = "nlst" THEN Err("std::io::Error", "PermissionDenied")
    ELSE Err("libunftp::storage::Error", "PermissionDenied")

\* The delegate's error replaced by one of the overlay's making.
OverlayReturnWrapped(ret) == IF ret.ok THEN ret ELSE Err(ret.ty, "LocalError")

\* The value of `self.delegate.<op>(..).await` is the value of the method.
OverlayReturn(ret) == ret

\* ------------------------------------------------------------------ state
VARIABLES
    perms,   \* each user's permissions(): a VfsOperations value
    fs,      \* the delegate's state: what each path is
    rec,     \* each session's call: where it is, its arguments, what it returned
    raw,     \* a delegate of its own that is given every call unchecked
    refFs    \* a delegate of its own that is given only the calls not denied

vars == <<perms, fs, rec, raw, refFs>>

Idle == [pc |-> "idle", op |-> "-", args |-> NoArgs, earlier |-> "none",
         permitted |-> FALSE, invoked |-> <<>>, result |-> Pending,
         direct |-> Pending, ref |-> Pending]

Diverged == [valid |-> FALSE, fs |-> EmptyFs]

\* The permission sets the users are given, built the way callers build them.
PermChoices ==
    {Empty, All, Union(GET, LIST), WRITE_OPS, Difference(All, WRITE_OPS)}
        \cup Flags \cup {Difference(All, f) : f \in Flags}

\* A delegate that already holds a file and a directory.
SeededFs == [q \in Paths |-> IF q = "/a" THEN "file" ELSE "dir"]

\* RestrictingVfs::new(delegate): the overlay holds the delegate and nothing else.
New(delegate) ==
    /\ fs = delegate
    /\ rec = [p \in Sessions |-> Idle]
    /\ raw = [valid |-> TRUE, fs |-> delegate]
    /\ refFs = delegate

Init ==
    /\ New(EmptyFs)
    /\ perms \in [Users -> {Empty}]

\* user.permissions(): read from the user's record at each call.
PermissionsSticky(p) ==
    IF rec[p].earlier = "forwarded" THEN All ELSE perms[UserOf(p)]

Permissions(p) == perms[UserOf(p)]

\* A method takes &self: a session starts a call whatever the others are doing.
CanStartWhenDelegateFree(p) ==
    /\ rec[p].pc = "idle"
    /\ \A q \in Sessions : rec[q].pc # "inDelegate"

CanStart(p) == rec[p].pc = "idle"

\* What the session's earlier call of the same method with the same arguments came to.
EarlierOf(r, op, a) == IF r.op = op /\ r.args = a THEN r.earlier ELSE "none"

\* name() and supported_features(): not async, no user, no test.
CallSync(p, op) ==
    /\ CanStart(p)
    /\ op \in SyncOps
    /\ LET ret == DelegateSync(op)
       IN  rec' = [rec EXCEPT ![p] =
                [pc |-> "done", op |-> op, args |-> NoArgs,
                 earlier |-> EarlierOf(rec[p], op, NoArgs),
                 permitted |-> Permitted(Permissions(p), op),
                 invoked |-> <<[method |-> op, user |-> "-", args |-> NoArgs, ret |-> ret]>>,
                 result |-> OverlayReturn(ret), direct |-> ret, ref |-> ret]]
    /\ UNCHANGED <<perms, fs, raw, refFs>>

\* An async method up to its first suspension: the test, then either the
\* error or the delegate's future.
CallAsync(p, op, a) ==
    /\ CanStart(p)
    /\ op \in Operations \ SyncOps
    /\ a \in ArgsOf(op)
    /\ LET user == UserOf(p)
           ps == Permissions(p)
           ok == Permitted(ps, op)
           inv == Invocations(ok, op, user, a)
       IN  /\ rec' = [rec EXCEPT ![p] =
                  [pc |-> IF inv = <<>> THEN "done" ELSE "inDelegate",
                   op |-> op, args |-> a,
                   earlier |-> EarlierOf(rec[p], op, a),
                   permitted |-> ok,
                   invoked |-> inv,
                   result |-> IF inv = <<>> THEN Denied(op) ELSE Pending,
                   direct |-> Pending, ref |-> Pending]]
           /\ raw' = IF raw.valid /\ Contains(ps, All) THEN raw ELSE Diverged
    /\ UNCHANGED <<perms, fs, refFs>>

\* The delegate's future completes and the method returns.
DelegateReturn(p) ==
    /\ rec[p].pc = "inDelegate"
    /\ \E fault \in DelegateFaults :
          LET r == rec[p]
              inv == r.invoked[1]
              out == Delegate(fs, inv.method, inv.user, inv.args, fault)
              rawOut == Delegate(raw.fs, r.op, UserOf(p), r.args, fault)
              refOut == Delegate(refFs, r.op, UserOf(p), r.args, fault)
          IN  /\ fs' = out.fs
              /\ raw' = IF raw.valid THEN [raw EXCEPT !.fs = rawOut.fs] ELSE raw
              /\ refFs' = IF r.permitted THEN refOut.fs ELSE refFs
              /\ rec' = [rec EXCEPT ![p] =
                     [r EXCEPT !.pc = "done",
                               !.invoked = <<[inv EXCEPT !.ret = out.ret]>>,
                               !.result = IF r.permitted THEN OverlayReturn(out.ret)
                                          ELSE Denied(r.op),
                               !.direct = IF raw.valid THEN rawOut.ret ELSE Pending,
                               !.ref = IF r.permitted THEN refOut.ret ELSE Pending]]
    /\ UNCHANGED perms

\* The caller takes the result; the session is free for its next call.
Return(p) ==
    /\ rec[p].pc = "done"
    /\ rec' = [rec EXCEPT ![p] =
           [Idle EXCEPT !.op = rec[p].op, !.args = rec[p].args,
                        !.earlier = IF rec[p].permitted THEN "forwarded" ELSE "denied"]]
    /\ UNCHANGED <<perms, fs, raw, refFs>>

\* The user's record is given another permission set between two calls.
SetPermissions(u, ps) ==
    /\ \A p \in Sessions : UserOf(p) = u => rec[p].pc = "idle"
    /\ ps # perms[u]
    /\ perms' = [perms EXCEPT ![u] = ps]
    /\ UNCHANGED <<fs, rec, raw, refFs>>

Call(p) ==
    \/ \E op \in SyncOps : CallSync(p, op)
    \/ \E op \in Operations \ SyncOps : \E a \in ArgsOf(op) : CallAsync(p, op, a)

\* One session, its calls one after another, its permissions changed in between.
Next ==
    \/ Call("s1")
    \/ DelegateReturn("s1")
    \/ Return("s1")
    \/ \E ps \in PermChoices : SetPermissions("u1", ps)

Spec == Init /\ [][Next]_vars

\* Every permission set against every method: one call of one session.
InitPolicy ==
    /\ \E start \in {EmptyFs, SeededFs} : New(start)
    /\ perms \in {[u \in Users |-> IF u = "u1" THEN ps ELSE Empty] : ps \in AllSets}

NextPolicy ==
    \/ Call("s1")
    \/ DelegateReturn("s1")

PolicySpec == InitPolicy /\ [][NextPolicy]_vars

\* The permission sets of the users of the two concurrent sessions.
ConcPerms == {Empty, Union(GET, LIST), All}

\* Two sessions of two users on one overlay and one delegate, one call each,
\* interleaved in every order.
InitConc ==
    /\ \E start \in {EmptyFs, SeededFs} : New(start)
    /\ perms \in [Users -> ConcPerms]

NextConc ==
    \E p \in Sessions :
        \/ Call(p)
        \/ DelegateReturn(p)

ConcSpec == InitConc /\ [][NextConc]_vars

\* Permission sets built from VfsOperations::all() by difference and union.
InitAlg ==
    /\ New(EmptyFs)
    /\ perms \in [Users -> {All}]

NextAlg ==
    \/ \E u \in Users, v \in Users : SetPermissions(u, Union(perms[u], perms[v]))
    \/ \E u \in Users, f \in Flags \cup {WRITE_OPS} :
          SetPermissions(u, Difference(perms[u], f))

AlgSpec == InitAlg /\ [][NextAlg]_vars

\* ------------------------------------------------------------ properties
\* The policy table: the one permission each guarded operation requires.
PolicyBit(op) ==
    CASE op = "md5" -> 64
      [] op = "list" -> 128
      [] op = "list_fmt" -> 128
      [] op = "nlst" -> 128
      [] op = "get" -> 4
      [] op = "get_into" -> 4
      [] op = "put" -> 8
      [] op = "del" -> 16
      [] op = "mkd" -> 1
      [] op = "rmd" -> 2
      [] op = "rename" -> 32

\* Whether the single bit is among the bits of ps.
HasBit(ps, bit) == (ps \div bit) % 2 = 1

Active(p) == rec[p].pc # "idle"

Done(p) == rec[p].pc = "done"

GuardedCall(p) == Active(p) /\ rec[p].op \in Guarded

\* The acting user of an active guarded call holds the bit the table requires.
Holds(p) == HasBit(perms[UserOf(p)], PolicyBit(rec[p].op))

PermissionDenied(r) == ~r.ok /\ r.kind = "PermissionDenied"

\* C1: a guarded call by a user whose permission set lacks the required bit
\* returns a permission-denied error at once, and no method of the delegate
\* is invoked by that call.
C1_DeniedWithoutDelegate ==
    \A p \in Sessions :
        (GuardedCall(p) /\ ~Holds(p)) =>
            /\ Done(p)
            /\ PermissionDenied(rec[p].result)
            /\ rec[p].invoked = <<>>

\* The user holds {GET, LIST}; put("/a", 0) was denied.
C1_Witness ==
    /\ perms["u1"] = 132
    /\ Done("s1") /\ rec["s1"].op = "put"
    /\ rec["s1"].args.path = "/a" /\ rec["s1"].args.start_pos = 0
    /\ PermissionDenied(rec["s1"].result)
    /\ rec["s1"].invoked = <<>>

\* C2: a guarded call by a user whose permission set contains the required
\* bit invokes the delegate's method of the same name exactly once, with the
\* same user and arguments, and returns exactly what the delegate returned,
\* its errors included.
C2_ForwardedOnceUnchanged ==
    \A p \in Sessions :
        (GuardedCall(p) /\ Holds(p)) =>
            /\ Len(rec[p].invoked) = 1
            /\ rec[p].invoked[1].method = rec[p].op
            /\ rec[p].invoked[1].user = UserOf(p)
            /\ rec[p].invoked[1].args = rec[p].args
            /\ Done(p) => rec[p].result = rec[p].invoked[1].ret

\* get("/b", 1) was forwarded and the delegate's own error came back.
C2_Witness ==
    /\ Done("s1") /\ rec["s1"].op = "get"
    /\ rec["s1"].args.path = "/b" /\ rec["s1"].args.start_pos = 1
    /\ Holds("s1")
    /\ Len(rec["s1"].invoked) = 1
    /\ ~rec["s1"].result.ok
    /\ rec["s1"].result.kind = "PermanentFileNotAvailable"

\* C3: metadata, cwd, name and supported_features are forwarded to the
\* delegate whatever the user's permission set, the empty set included, and
\* return what the delegate returned.
C3_UnguardedAlwaysForwarded ==
    \A p \in Sessions :
        (Active(p) /\ rec[p].op \in {"metadata", "cwd", "name", "supported_features"}) =>
            /\ Len(rec[p].invoked) = 1
            /\ rec[p].invoked[1].method = rec[p].op
            /\ rec[p].invoked[1].args = rec[p].args
            /\ Done(p) => rec[p].result = rec[p].invoked[1].ret

\* A user with the empty set changed directory and the delegate's success came back.
C3_Witness ==
    /\ perms["u1"] = 0
    /\ Done("s1") /\ rec["s1"].op = "cwd"
    /\ rec["s1"].result.ok
    /\ Len(rec["s1"].invoked) = 1

\* The permission set ps with the one bit changed.
Flip(ps, bit) == IF HasBit(ps, bit) THEN ps - bit ELSE ps + bit

\* C4: whether a guarded call is forwarded is the value of the one bit the
\* policy table assigns to its operation, and changing any other bit of the
\* permission set leaves the decision as it is.
C4_SingleBitDecides ==
    \A p \in Sessions :
        GuardedCall(p) =>
            /\ (rec[p].invoked # <<>>) <=> Holds(p)
            /\ \A f \in {1, 2, 4, 8, 16, 32, 64, 128} \ {PolicyBit(rec[p].op)} :
                  Permitted(Flip(perms[UserOf(p)], f), rec[p].op) = (rec[p].invoked # <<>>)

\* rename was forwarded for a user who holds RENAME and neither DEL nor MK_DIR.
C4_Witness ==
    /\ Active("s1") /\ rec["s1"].op = "rename"
    /\ rec["s1"].invoked # <<>>
    /\ HasBit(perms["u1"], 32)
    /\ ~HasBit(perms["u1"], 16)
    /\ ~HasBit(perms["u1"], 1)

\* The overlay refused the call: the user lacks the bit and no delegate call was made.
DeniedByOverlay(p) == GuardedCall(p) /\ Done(p) /\ rec[p].invoked = <<>>

\* C5 as stated: any two calls the overlay denies return the same error value.
C5_Original ==
    \A p \in Sessions, q \in Sessions :
        (DeniedByOverlay(p) /\ DeniedByOverlay(q)) => rec[p].result = rec[q].result

\* C5: every call the overlay denies returns an error of kind
\* PermissionDenied that carries nothing else; it is libunftp's storage error
\* for every operation but nlst and std::io::Error for nlst, so two denials
\* are the same value unless exactly one of them is of nlst.
C5_DenialIsPermissionDeniedOnly ==
    \A p \in Sessions, q \in Sessions :
        DeniedByOverlay(p) =>
            /\ rec[p].result =
                  [ok |-> FALSE,
                   ty |-> IF rec[p].op = "nlst" THEN "std::io::Error"
                          ELSE "libunftp::storage::Error",
                   kind |-> "PermissionDenied", val |-> <<>>]
            /\ (DeniedByOverlay(q) /\ ((rec[p].op = "nlst") <=> (rec[q].op = "nlst")))
                  => rec[p].result = rec[q].result

\* md5 and nlst were both denied.
C5_Witness ==
    /\ DeniedByOverlay("s1") /\ rec["s1"].op = "md5"
    /\ DeniedByOverlay("s2") /\ rec["s2"].op = "nlst"

\* C6: the delegate is in the state the calls that were not denied alone
\* would have left it in, a denied call has made no delegate call, and every
\* forwarded call returns what it would have returned had the denied calls
\* never been made.
C6_DeniedCallLeavesNoTrace ==
    /\ fs = refFs
    /\ \A p \in Sessions :
          /\ (GuardedCall(p) /\ ~Holds(p)) => (Done(p) /\ rec[p].invoked = <<>>)
          /\ (Done(p) /\ rec[p].invoked # <<>>) => rec[p].result = rec[p].ref

\* put was denied, the user was given PUT, and the same put then stored the file.
C6_Witness ==
    /\ Done("s1") /\ rec["s1"].op = "put"
    /\ rec["s1"].earlier = "denied"
    /\ rec["s1"].result.ok
    /\ fs[rec["s1"].args.path] = "file"

\* C7: contains(set, flag) holds exactly when every bit of flag is in set;
\* a union contains each of its parts; the empty set contains no non-empty
\* flag; WRITE_OPS is MK_DIR, RM_DIR, PUT, DEL and RENAME and no other flag,
\* so a set contains it exactly when it holds all five.
C7_PermissionSetAlgebra ==
    LET A == perms["u1"]
        B == perms["u2"]
        bits == {1, 2, 4, 8, 16, 32, 64, 128}
    IN  /\ Contains(A, B) <=> \A f \in bits : HasBit(B, f) => HasBit(A, f)
        /\ Contains(Union(A, B), A)
        /\ \A f \in bits : HasBit(Union(A, B), f) <=> (HasBit(A, f) \/ HasBit(B, f))
        /\ B # 0 => ~Contains(Empty, B)
        /\ \A f \in bits : HasBit(WRITE_OPS, f) <=> f \in {1, 2, 8, 16, 32}
        /\ Contains(A, WRITE_OPS) <=> \A f \in {1, 2, 8, 16, 32} : HasBit(A, f)

\* A set with MK_DIR and PUT alone, which shares bits with WRITE_OPS and
\* does not contain it, beside a set that is WRITE_OPS.
C7_Witness ==
    /\ perms["u1"] = 9
    /\ perms["u2"] = 59
    /\ perms["u2"] = WRITE_OPS
    /\ ~Contains(perms["u1"], perms["u2"])
    /\ Contains(perms["u2"], perms["u1"])

\* C8: while every call so far was made by a user holding all eight flags the
\* delegate behind the overlay is in the state of a delegate given the same
\* calls directly and every result is the one that delegate gave; and for
\* any user a finished call returned either the overlay's permission-denied
\* for a missing bit, with no delegate call, or what its one delegate call
\* returned.
C8_TransparentSubstitute ==
    /\ raw.valid => fs = raw.fs
    /\ \A p \in Sessions :
          Done(p) =>
              /\ raw.valid => rec[p].result = rec[p].direct
              /\ \/ /\ rec[p].invoked = <<>>
                    /\ GuardedCall(p) /\ ~Holds(p)
                    /\ PermissionDenied(rec[p].result)
                 \/ /\ Len(rec[p].invoked) = 1
                    /\ rec[p].result = rec[p].invoked[1].ret

\* A user with all flags stored a file and renamed it, as on the delegate itself.
C8_Witness ==
    /\ raw.valid
    /\ perms["u1"] = 255
    /\ Done("s1") /\ rec["s1"].op = "rename"
    /\ rec["s1"].args.path = "/a" /\ rec["s1"].args.to = "/b"
    /\ rec["s1"].result.ok
    /\ fs["/b"] = "file"

\* C9: at the step in which a session makes a guarded call the call is
\* forwarded exactly when the user's permission set, as it is at that step,
\* holds the required bit, whatever any earlier call came to.
C9_DecidedAtEachCall ==
    [][\A p \in Sessions :
          (rec[p].pc = "idle" /\ rec'[p].pc # "idle" /\ rec'[p].op \in Guarded) =>
              ((rec'[p].invoked # <<>>) <=>
                  HasBit(perms[UserOf(p)], PolicyBit(rec'[p].op)))]_vars

\* The same call was forwarded, the bit was then revoked, and the call is now denied.
C9_Witness ==
    /\ DeniedByOverlay("s1")
    /\ rec["s1"].earlier = "forwarded"
    /\ PermissionDenied(rec["s1"].result)

\* C10: in every interleaving a call whose user lacks the bit is finished,
\* denied, without ever having entered the delegate; whether a call is
\* forwarded is decided by its own user's permission set alone; and a session
\* that is not in a call can start one whatever the other sessions are doing.
C10_ConcurrentCalls ==
    \A p \in Sessions :
        /\ (GuardedCall(p) /\ ~Holds(p)) =>
               (Done(p) /\ rec[p].invoked = <<>> /\ PermissionDenied(rec[p].result))
        /\ Active(p) =>
               ((rec[p].invoked # <<>>) <=> (rec[p].op \notin Guarded \/ Holds(p)))
        /\ rec[p].pc = "idle" => ENABLED Call(p)

\* Two permitted transfers are inside the delegate at the same time.
C10_Witness ==
    /\ rec["s1"].pc = "inDelegate" /\ rec["s1"].op = "put"
    /\ rec["s2"].pc = "inDelegate" /\ rec["s2"].op = "get_into"

====
